---- MODULE Spec2Model ----
(***************************************************************************)
(* Model of the report viewer's browser code:                              *)
(*   - reorganizeMetrics and the CompareMetrics table (compare-metrics),   *)
(*   - the route table (routes/index.js),                                  *)
(*   - the SingleRun page shell (routes/single-run.js).                    *)
(*                                                                         *)
(* Strings that the code splits on "/" are modelled as sequences of        *)
(* fragments: a fragment is either the separator "/" itself or a non-empty *)
(* piece of text without a separator.  "a/acc" is <<"a", "/", "acc">>, the *)
(* empty string is <<>>.  Run identifiers and route names are never split  *)
(* and are plain strings.                                                  *)
(***************************************************************************)
EXTENDS Integers, Sequences, FiniteSets, TLC

VARIABLES
    runs,            \* props.runs of CompareMetrics: sequence of run records
    hiddenMetrics,   \* metrics-settings store: hidden metric names
    hiddenChains,    \* metrics-settings store: hidden chain names
    precision,       \* metrics-settings store: display precision
    metrics,         \* value of the computed `metrics` (Stale until evaluated)
    cells,           \* outcome of rendering the table body (NotRendered before)
    evaluationData,  \* evaluation-data store: its `runs` collection
    currentRoute,    \* the router's current location: [name, id]
    requested,       \* the target of the last navigation, before redirects
    watchedRun,      \* SingleRun: the value of `run` the watcher saw last
    view,            \* SingleRun: what the template rendered
    redirected       \* SingleRun: the watcher called router.push({name:'index'})

metricsVars == <<runs, hiddenMetrics, hiddenChains, precision, metrics, cells>>
pageVars == <<evaluationData, currentRoute, requested, watchedRun, view, redirected>>
vars == <<runs, hiddenMetrics, hiddenChains, precision, metrics, cells,
          evaluationData, currentRoute, requested, watchedRun, view, redirected>>

----------------------------------------------------------------------------
(* Bounds *)

MaxRuns == 2
MaxKeys == 2

----------------------------------------------------------------------------
(* Strings *)

Sep == "/"

str(s) == <<s>>

Range(seq) == {seq[i] : i \in DOMAIN seq}

\* chain + "/" + metric
keyOf(chain, metric) == chain \o <<Sep>> \o metric

\* key.split("/"): the pieces between separators, in order; the empty string
\* splits into one empty piece.
RECURSIVE split(_)
split(key) ==
    IF key = <<>> THEN << <<>> >>
    ELSE LET rest == split(Tail(key)) IN
         IF Head(key) = Sep
         THEN << <<>> >> \o rest
         ELSE << <<Head(key)>> \o Head(rest) >> \o Tail(rest)

\* Array.prototype.includes on an array of strings
includes(array, x) == x \in array

\* Property names every plain object ({}) inherits from Object.prototype.
ObjectPrototype ==
    { str("constructor"), str("__proto__"), str("toString"), str("valueOf"),
      str("hasOwnProperty"), str("isPrototypeOf"), str("propertyIsEnumerable"),
      str("toLocaleString") }

\* `name in obj` for a plain object with the own properties DOMAIN obj
hasProperty(obj, name) == name \in DOMAIN obj \/ name \in ObjectPrototype

\* obj[key] = val on a plain object keyed by run identifier: assigning to
\* "__proto__" replaces the prototype and creates no own property.
assign(obj, key, val) ==
    IF key = "__proto__" THEN obj
    ELSE [k \in (DOMAIN obj) \cup {key} |-> IF k = key THEN val ELSE obj[k]]

\* Object.keys(run.data.metrics): a metrics object is modelled by its keys in
\* own-property order (every key maps to a number).
objectKeys(obj) == [i \in 1..Len(obj) |-> obj[i]]

----------------------------------------------------------------------------
(* reorganizeMetrics *)

EmptyObject == <<>>

\* allMetrics.add(name) for every name: a Set keeps first-insertion order
RECURSIVE addAll(_, _)
addAll(set, names) ==
    IF names = <<>> THEN set
    ELSE addAll(IF Head(names) \in Range(set) THEN set ELSE Append(set, Head(names)),
                Tail(names))

\* the first loop: [allMetrics, byRunId] after the runs rs
RECURSIVE collect(_, _)
collect(acc, rs) ==
    IF rs = <<>> THEN acc
    ELSE LET r == Head(rs) IN
         collect([allMetrics |-> addAll(acc.allMetrics, objectKeys(r.data.metrics)),
                  byRunId |-> assign(acc.byRunId, r.info.run_id, r)],
                 Tail(rs))

isDisplayableNoSystemCheck(segments) == Len(segments) = 2

\* segments.length == 2 && segments[0] != "system"
isDisplayable(segments) == Len(segments) = 2 /\ segments[1] # str("system")

isHiddenBoth(metric, chain, hm, hc) == includes(hm, metric) /\ includes(hc, chain)

\* hiddenMetrics.includes(metric) || hiddenChains.includes(chain)
isHidden(metric, chain, hm, hc) == includes(hm, metric) \/ includes(hc, chain)

pushFront(list, chain) == <<chain>> \o list

\* columns[metric].push(chain)
push(list, chain) == Append(list, chain)

\* the body of the second loop for one key; acc is [fault, columns]
addColumn(acc, key, hm, hc) ==
    IF acc.fault THEN acc
    ELSE LET segments == split(key) IN
         IF ~isDisplayable(segments) THEN acc
         ELSE LET chain == segments[1]
                  metric == segments[2]
              IN IF isHidden(metric, chain, hm, hc) THEN acc
                 ELSE IF hasProperty(acc.columns, metric)
                 THEN IF metric \in DOMAIN acc.columns
                      THEN [acc EXCEPT !.columns[metric] = push(@, chain)]
                      \* an inherited property has no push: TypeError
                      ELSE [acc EXCEPT !.fault = TRUE]
                 ELSE [acc EXCEPT !.columns =
                          [m \in (DOMAIN acc.columns) \cup {metric} |->
                              IF m = metric THEN <<chain>> ELSE acc.columns[m]]]

RECURSIVE buildColumns(_, _, _, _)
buildColumns(acc, keys, hm, hc) ==
    IF keys = <<>> THEN acc
    ELSE buildColumns(addColumn(acc, Head(keys), hm, hc), Tail(keys), hm, hc)

\* The result; fault is TRUE when the call throws (then nothing is returned).
reorganizeMetrics(rs, hm, hc) ==
    LET first == collect([allMetrics |-> <<>>, byRunId |-> EmptyObject], rs)
        second == buildColumns([fault |-> FALSE, columns |-> EmptyObject],
                               first.allMetrics, hm, hc)
    IN IF second.fault
       THEN [fault |-> TRUE, byRunId |-> EmptyObject, columns |-> EmptyObject]
       ELSE [fault |-> FALSE, byRunId |-> first.byRunId, columns |-> second.columns]

----------------------------------------------------------------------------
(* CompareMetrics: the computed `metrics` and the table body *)

NoResult == [fault |-> FALSE, byRunId |-> EmptyObject, columns |-> EmptyObject]

Stale == [evaluated |-> FALSE, result |-> NoResult]

NotRendered == [rendered |-> FALSE, fault |-> FALSE, body |-> EmptyObject]

lookupOrZero(obj, key) == "number"

\* run.data.metrics[key]: the kind of value the lookup yields
lookup(obj, key) ==
    IF key \in Range(obj) THEN "number"
    ELSE IF key \in ObjectPrototype THEN "inherited"
    ELSE "undefined"

\* value.toFixed(digits): a property read on undefined throws TypeError, an
\* inherited function has no toFixed (TypeError), and Number.prototype.toFixed
\* throws RangeError unless 0 <= digits <= 100.
toFixed(value, digits) ==
    IF value # "number" THEN "TypeError"
    ELSE IF digits < 0 \/ digits > 100 THEN "RangeError"
    ELSE "text"

\* {{ run.data.metrics[chain + "/" + metric].toFixed(precision) }}
cell(r, metric, chain, digits) ==
    toFixed(lookup(r.data.metrics, keyOf(chain, metric)), digits)

\* the cells the template's loops visit: one per row of byRunId and per
\* (metric, chain) of columns
cellIndex(res) ==
    { <<runId, metric, chain>> :
        runId \in DOMAIN res.byRunId,
        metric \in DOMAIN res.columns,
        chain \in UNION {Range(res.columns[m]) : m \in DOMAIN res.columns} }

\* <TableBody>: each visited cell mapped to the outcome of evaluating its
\* expression; the whole render faults when the computed `metrics` threw.
renderBody(res, digits) ==
    IF res.fault THEN [rendered |-> TRUE, fault |-> TRUE, body |-> EmptyObject]
    ELSE [rendered |-> TRUE, fault |-> FALSE,
          body |-> [c \in {x \in cellIndex(res) : x[3] \in Range(res.columns[x[2]])} |->
                       cell(res.byRunId[c[1]], c[2], c[3], digits)]]

----------------------------------------------------------------------------
(* The route table *)

NoName == ""
NoRedirect == ""

Leaf(path, name, redirect) ==
    [path |-> path, name |-> name, redirect |-> redirect, children |-> <<>>]

routesRedirectTypo ==
    << [path |-> <<>>, name |-> "index", redirect |-> NoRedirect, children |-> <<>>],
       [path |-> <<"run", ":id">>, name |-> "single-run", redirect |-> "single-run-detail",
        children |-> <<
            Leaf(<<>>, "single-run-details", NoRedirect),
            Leaf(<<"metrics">>, "single-run-metrics", NoRedirect),
            Leaf(<<"parameters">>, "single-run-params", NoRedirect),
            Leaf(<<"pipeline">>, "single-run-pipeline", NoRedirect),
            Leaf(<<"artifacts">>, "single-run-artifacts", NoRedirect) >>],
       [path |-> <<"compare">>, name |-> "compare-runs", redirect |-> NoRedirect,
        children |-> <<
            Leaf(<<>>, NoName, "compare-runs-metrics"),
            Leaf(<<"metrics">>, "compare-runs-metrics", NoRedirect),
            Leaf(<<"diff">>, "compare-runs-diff", NoRedirect) >>] >>

\* A path is the sequence of its "/"-separated segments: '/' and '' are <<>>,
\* '/run/:id' is <<"run", ":id">>, 'metrics' is <<"metrics">>.
routes ==
    << [path |-> <<>>, name |-> "index", redirect |-> NoRedirect, children |-> <<>>],
       [path |-> <<"run", ":id">>, name |-> "single-run", redirect |-> "single-run-details",
        children |-> <<
            Leaf(<<>>, "single-run-details", NoRedirect),
            Leaf(<<"metrics">>, "single-run-metrics", NoRedirect),
            Leaf(<<"parameters">>, "single-run-params", NoRedirect),
            Leaf(<<"pipeline">>, "single-run-pipeline", NoRedirect),
            Leaf(<<"artifacts">>, "single-run-artifacts", NoRedirect) >>],
       [path |-> <<"compare">>, name |-> "compare-runs", redirect |-> NoRedirect,
        children |-> <<
            Leaf(<<>>, NoName, "compare-runs-metrics"),
            Leaf(<<"metrics">>, "compare-runs-metrics", NoRedirect),
            Leaf(<<"diff">>, "compare-runs-diff", NoRedirect) >>] >>

\* the records of the table, children after their parent, each with its full
\* path (a child's relative path is appended to its parent's) and its parent
records ==
    UNION { { [name |-> routes[i].name, fullPath |-> routes[i].path,
               redirect |-> routes[i].redirect, parent |-> NoName, at |-> <<i>>] }
            \cup
            { [name |-> routes[i].children[j].name,
               fullPath |-> routes[i].path \o routes[i].children[j].path,
               redirect |-> routes[i].children[j].redirect,
               parent |-> routes[i].name, at |-> <<i, j>>] :
              j \in DOMAIN routes[i].children }
          : i \in DOMAIN routes }

registeredNames == { r.name : r \in records } \ {NoName}

recordNamed(name) == CHOOSE r \in records : r.name = name

\* the route a navigation to the registered name ends at, redirects followed
\* (at most `fuel` of them)
RECURSIVE resolve(_, _)
resolve(name, fuel) ==
    LET r == recordNamed(name)
    IN IF r.redirect = NoRedirect \/ fuel = 0 \/ r.redirect \notin registeredNames
       THEN name
       ELSE resolve(r.redirect, fuel - 1)

\* the record's path has the :id parameter
takesId(name) == ":id" \in Range(recordNamed(name).fullPath)

----------------------------------------------------------------------------
(* The SingleRun page *)

NoRun == [info |-> [run_id |-> "", run_name |-> ""]]

Undefined == [defined |-> FALSE, value |-> NoRun]

Defined(r) == [defined |-> TRUE, value |-> r]

runIgnoringId(rs, id) == IF rs = <<>> THEN Undefined ELSE Defined(rs[1])

\* evaluationData.runs.filter((run) => run.info.run_id == props.id)[0]
run(rs, id) ==
    LET matching == SelectSeq(rs, LAMBDA r : r.info.run_id = id)
    IN IF matching = <<>> THEN Undefined ELSE Defined(matching[1])

tabs ==
    << [dest |-> "single-run-details", label |-> "Details"],
       [dest |-> "single-run-metrics", label |-> "Metrics"],
       [dest |-> "single-run-runtime", label |-> "Runtime"],
       [dest |-> "single-run-params", label |-> "Parameters"],
       [dest |-> "single-run-samples", label |-> "Samples"],
       [dest |-> "single-run-flowchart", label |-> "Flowchart"] >>

NotMounted ==
    [mounted |-> FALSE, heading |-> "", tabs |-> <<>>,
     routerView |-> [shown |-> FALSE, run |-> NoRun]]

\* the template: the heading shows run?.info.run_name, the tabs are always
\* there, the router-view is rendered with :run="run" under v-if="run"
template(r) ==
    [mounted |-> TRUE,
     heading |-> IF r.defined THEN r.value.info.run_name ELSE "",
     tabs |-> [i \in DOMAIN tabs |-> tabs[i].label],
     routerView |-> [shown |-> r.defined, run |-> IF r.defined THEN r.value ELSE NoRun]]

\* the SingleRun component is the one matched for the route
showsSingleRun(route) ==
    route.name = "single-run" \/ recordNamed(route.name).parent = "single-run"

\* What the component does once the store or the route has changed: setup()
\* when it is created (watch is not immediate: no callback), the watcher's
\* callback when the value of `run` changed, and the render.
reactTo(store, route, wasMounted, old, pending) ==
    IF ~showsSingleRun(route)
    THEN [watchedRun |-> Undefined, view |-> NotMounted, redirected |-> FALSE]
    ELSE LET now == run(store, route.id)
         IN IF ~wasMounted
            THEN [watchedRun |-> now, view |-> template(now), redirected |-> FALSE]
            ELSE [watchedRun |-> now, view |-> template(now),
                  \* watch(run, (newRun) => { if (!newRun) router.push(...) })
                  redirected |-> pending \/ (now # old /\ ~now.defined)]

----------------------------------------------------------------------------
(* Inputs *)

acc == str("acc")
loss == str("loss")
chainA == str("a")
chainB == str("b")

\* well-formed keys, one of them naming a metric "constructor"
ColumnKeys ==
    { keyOf(chainA, acc), keyOf(chainB, acc), keyOf(chainB, loss),
      keyOf(chainA, str("constructor")) }

\* "a/acc", "system/acc", "a/b/acc" and "acc"
MalformedKeys ==
    { keyOf(chainA, acc), keyOf(str("system"), acc),
      chainA \o <<Sep>> \o chainB \o <<Sep>> \o acc, acc }

TableKeys == { keyOf(chainA, acc), keyOf(chainB, acc) }

HiddenMetricsChoices == SUBSET {acc}
HiddenChainsChoices == SUBSET {chainA}

Precisions == {-1, 2, 101}

\* metrics objects: up to MaxKeys distinct keys of K in some property order
MetricsObjects(K) ==
    { s \in UNION {[1..n -> K] : n \in 0..MaxKeys} :
        \A i, j \in DOMAIN s : i # j => s[i] # s[j] }

Run(runId, ms) == [info |-> [run_id |-> runId], data |-> [metrics |-> ms]]

\* unique run identifiers, by position in the collection
UniqueIds == <<"r1", "r2", "r3", "r4">>

\* rs is a run collection over the keys K whose identifiers are unique
IsUniqueRunCollection(rs, K) ==
    \E n \in 0..MaxRuns : \E f \in [1..n -> MetricsObjects(K)] :
        rs = [i \in 1..n |-> Run(UniqueIds[i], f[i])]

AnyIds == {"r1", "r2", "__proto__"}

\* rs is a run collection over the keys K with any identifiers, repeated
\* ones included
IsAnyRunCollection(rs, K) ==
    \E n \in 0..MaxRuns : \E ids \in [1..n -> AnyIds] : \E f \in [1..n -> MetricsObjects(K)] :
        rs = [i \in 1..n |-> Run(ids[i], f[i])]

----------------------------------------------------------------------------
(* Actions of CompareMetrics *)

\* the computed `metrics` is evaluated
Reorganize ==
    /\ ~metrics.evaluated
    /\ metrics' = [evaluated |-> TRUE,
                   result |-> reorganizeMetrics(runs, hiddenMetrics, hiddenChains)]
    /\ UNCHANGED <<runs, hiddenMetrics, hiddenChains, precision, cells>>
    /\ UNCHANGED pageVars

\* the template renders the table body
Render ==
    /\ metrics.evaluated
    /\ ~cells.rendered
    /\ cells' = renderBody(metrics.result, precision)
    /\ UNCHANGED <<runs, hiddenMetrics, hiddenChains, precision, metrics>>
    /\ UNCHANGED pageVars

\* the precision input (v-model): the typed number is stored as it is, and a
\* rendered table is rendered again
SetPrecision(p) ==
    /\ p # precision
    /\ precision' = p
    /\ cells' = IF cells.rendered THEN renderBody(metrics.result, p) ELSE cells
    /\ UNCHANGED <<runs, hiddenMetrics, hiddenChains, metrics>>
    /\ UNCHANGED pageVars

----------------------------------------------------------------------------
(* Page state *)

InitPageIdle ==
    /\ evaluationData = <<>>
    /\ currentRoute = [name |-> "index", id |-> ""]
    /\ requested = "index"
    /\ watchedRun = Undefined
    /\ view = NotMounted
    /\ redirected = FALSE

InitMetrics ==
    /\ hiddenMetrics \in HiddenMetricsChoices
    /\ hiddenChains \in HiddenChainsChoices
    /\ metrics = Stale
    /\ cells = NotRendered
    /\ InitPageIdle

InitColumns == IsUniqueRunCollection(runs, ColumnKeys) /\ InitMetrics /\ precision = 2
InitMalformed == IsUniqueRunCollection(runs, MalformedKeys) /\ InitMetrics /\ precision = 2
InitTable == IsAnyRunCollection(runs, TableKeys) /\ InitMetrics /\ precision = 2

NextApply == Reorganize

NextTable ==
    \/ Reorganize
    \/ Render
    \/ \E p \in Precisions : SetPrecision(p)

SpecColumns == InitColumns /\ [][NextApply]_vars
SpecMalformed == InitMalformed /\ [][NextApply]_vars
SpecTable == InitTable /\ [][NextTable]_vars

----------------------------------------------------------------------------
(* Actions of the router, the evaluation-data store and the SingleRun page *)

RunIdChoices == {"x", "y"}
RunNameChoices == {"first", "second"}
IdParamChoices == {"x", "y", "gone"}

StoredRuns ==
    { [info |-> [run_id |-> i, run_name |-> n]] : i \in RunIdChoices, n \in RunNameChoices }

\* the names the code navigates to: the registered ones and the tabs' targets
NavigableNames == registeredNames \cup { tabs[i].dest : i \in DOMAIN tabs }

\* router.push({ name, params: { id } }) or a click on such a link: a name
\* that is not registered is rejected by the router and nothing changes
Navigate(name, id) ==
    /\ requested' = name
    /\ IF name \in registeredNames
       THEN LET target == resolve(name, Cardinality(records))
                route == [name |-> target, id |-> IF takesId(target) THEN id ELSE ""]
                after == reactTo(evaluationData, route, view.mounted, watchedRun, FALSE)
            IN /\ currentRoute' = route
               /\ watchedRun' = after.watchedRun
               /\ view' = after.view
               /\ redirected' = after.redirected
       ELSE UNCHANGED <<currentRoute, watchedRun, view, redirected>>
    /\ UNCHANGED evaluationData
    /\ UNCHANGED metricsVars

\* the evaluation-data store gets a run collection
LoadRuns(rs) ==
    /\ rs # evaluationData
    /\ evaluationData' = rs
    /\ LET after == reactTo(rs, currentRoute, view.mounted, watchedRun, redirected)
       IN /\ watchedRun' = after.watchedRun
          /\ view' = after.view
          /\ redirected' = after.redirected
    /\ UNCHANGED <<currentRoute, requested>>
    /\ UNCHANGED metricsVars

\* the navigation started by the watcher's router.push({ name: 'index' }) ends
CompleteRedirect ==
    /\ redirected
    /\ requested' = "index"
    /\ currentRoute' = [name |-> resolve("index", Cardinality(records)), id |-> ""]
    /\ watchedRun' = Undefined
    /\ view' = NotMounted
    /\ redirected' = FALSE
    /\ UNCHANGED evaluationData
    /\ UNCHANGED metricsVars

InitPage ==
    /\ runs = <<>>
    /\ hiddenMetrics = {}
    /\ hiddenChains = {}
    /\ precision = 2
    /\ metrics = Stale
    /\ cells = NotRendered
    /\ InitPageIdle

NextPage ==
    \/ \E name \in NavigableNames : \E id \in IdParamChoices : Navigate(name, id)
    \/ \E n \in 0..MaxRuns : \E rs \in [1..n -> StoredRuns] : LoadRuns(rs)
    \/ CompleteRedirect

SpecPage == InitPage /\ [][NextPage]_vars

----------------------------------------------------------------------------
(* Vocabulary of the properties of reorganizeMetrics *)

Result == metrics.result

Returned == metrics.evaluated /\ ~Result.fault

\* every metric key some run reports
ReportedKeys == UNION { Range(runs[i].data.metrics) : i \in DOMAIN runs }

SepPositions(key) == { i \in DOMAIN key : key[i] = Sep }

\* the key has exactly two "/"-separated segments, the first not "system"
WellFormed(key) ==
    /\ Cardinality(SepPositions(key)) = 1
    /\ LET i == CHOOSE x \in SepPositions(key) : TRUE
       IN SubSeq(key, 1, i - 1) # str("system")

ChainOf(key) == SubSeq(key, 1, (CHOOSE x \in SepPositions(key) : TRUE) - 1)

MetricOf(key) ==
    SubSeq(key, (CHOOSE x \in SepPositions(key) : TRUE) + 1, Len(key))

Occurrences(list, x) == Cardinality({ i \in DOMAIN list : list[i] = x })

\* all metric keys in the order the loops meet them: run by run, each run's
\* keys in their own order
RECURSIVE Encountered(_)
Encountered(rs) ==
    IF rs = <<>> THEN <<>>
    ELSE objectKeys(Head(rs).data.metrics) \o Encountered(Tail(rs))

FirstSeen(key) ==
    LET e == Encountered(runs)
    IN CHOOSE i \in DOMAIN e : e[i] = key /\ \A j \in 1..(i - 1) : e[j] # key

\* the runs without the keys that are not well-formed
Stripped(rs) ==
    [i \in DOMAIN rs |->
        Run(rs[i].info.run_id,
            SelectSeq(rs[i].data.metrics, LAMBDA k : WellFormed(k)))]

LastWithId(runId) ==
    CHOOSE i \in DOMAIN runs :
        /\ runs[i].info.run_id = runId
        /\ \A j \in DOMAIN runs : j > i => runs[j].info.run_id # runId

----------------------------------------------------------------------------
(* Properties of reorganizeMetrics *)

\* C1: with both hidden sets empty, the call returns columns in which every
\* well-formed key "c/m" some run reports has c exactly once in columns[m],
\* and every metric and chain of columns comes from such a key.
C1_EveryWellFormedKeyOnce ==
    (metrics.evaluated /\ hiddenMetrics = {} /\ hiddenChains = {}) =>
        /\ ~Result.fault
        /\ \A key \in ReportedKeys : WellFormed(key) =>
              /\ MetricOf(key) \in DOMAIN Result.columns
              /\ Occurrences(Result.columns[MetricOf(key)], ChainOf(key)) = 1
        /\ \A m \in DOMAIN Result.columns : \A c \in Range(Result.columns[m]) :
              keyOf(c, m) \in ReportedKeys /\ WellFormed(keyOf(c, m))

\* C2: the returned columns has no hidden metric as a key and no hidden chain
\* in any list; a chain is listed under a metric only when neither is hidden.
C2_HiddenAbsent ==
    Returned =>
        /\ DOMAIN Result.columns \cap hiddenMetrics = {}
        /\ \A m \in DOMAIN Result.columns :
              /\ Range(Result.columns[m]) \cap hiddenChains = {}
              /\ \A c \in Range(Result.columns[m]) :
                    m \notin hiddenMetrics /\ c \notin hiddenChains

C2_Witness ==
    /\ Returned
    /\ hiddenMetrics # {} /\ hiddenChains # {}
    /\ \E key \in ReportedKeys : WellFormed(key) /\ MetricOf(key) \in hiddenMetrics
    /\ \E key \in ReportedKeys :
          WellFormed(key) /\ ChainOf(key) \in hiddenChains /\ MetricOf(key) \notin hiddenMetrics
    /\ DOMAIN Result.columns # {}

\* C3: a key whose first segment is "system" or that has not exactly two
\* segments contributes nothing: the outcome is the one of the same runs
\* without those keys, and every entry of columns comes from a well-formed key.
C3_MalformedContributeNothing ==
    metrics.evaluated =>
        LET without == reorganizeMetrics(Stripped(runs), hiddenMetrics, hiddenChains)
        IN /\ without.fault = Result.fault
           /\ without.columns = Result.columns
           /\ \A m \in DOMAIN Result.columns : \A c \in Range(Result.columns[m]) :
                 keyOf(c, m) \in ReportedKeys /\ WellFormed(keyOf(c, m))

C3_Witness ==
    /\ Returned
    /\ keyOf(str("system"), acc) \in ReportedKeys
    /\ \E key \in ReportedKeys : Cardinality(SepPositions(key)) = 2
    /\ \E key \in ReportedKeys : Cardinality(SepPositions(key)) = 0
    /\ acc \in DOMAIN Result.columns

\* C4: the returned byRunId has exactly the distinct run identifiers of the
\* input as its keys, each mapped to the last input run with that identifier.
C4_ByRunIdKeys ==
    Returned =>
        /\ DOMAIN Result.byRunId = { runs[i].info.run_id : i \in DOMAIN runs }
        /\ \A runId \in DOMAIN Result.byRunId :
              Result.byRunId[runId] = runs[LastWithId(runId)]

\* C7: the call has no error cases: whatever the runs, the hidden sets and the
\* names in the metric keys, it returns a result.
C7_NoErrorCases == metrics.evaluated => ~Result.fault

\* C10: each returned list columns[m] holds its chains in first-seen order:
\* one chain precedes another exactly when its key "c/m" is met first.
C10_FirstSeenOrder ==
    Returned =>
        \A m \in DOMAIN Result.columns :
            LET list == Result.columns[m]
            IN \A i, j \in DOMAIN list :
                  /\ keyOf(list[i], m) \in ReportedKeys
                  /\ (i < j <=> FirstSeen(keyOf(list[i], m)) < FirstSeen(keyOf(list[j], m)))

C10_Witness ==
    /\ Returned
    /\ Len(runs) = 2
    /\ \E m \in DOMAIN Result.columns :
          /\ Result.columns[m] = <<chainB, chainA>>
          /\ keyOf(chainB, m) \in Range(runs[1].data.metrics)
          /\ keyOf(chainA, m) \in Range(runs[2].data.metrics)
          /\ keyOf(chainB, m) \in Range(runs[2].data.metrics)

----------------------------------------------------------------------------
(* Properties of the CompareMetrics table body *)

CellFaults(c) == cells.body[c] \in {"TypeError", "RangeError"}

Reports(runId, metric, chain) ==
    keyOf(chain, metric) \in Range(Result.byRunId[runId].data.metrics)

\* C9 as stated: the cell of a run that lacks the key faults, and when every
\* row's run reports every listed key no cell faults.
C9_CellFaultsIffKeyMissing ==
    (cells.rendered /\ ~cells.fault) =>
        /\ \A c \in DOMAIN cells.body : ~Reports(c[1], c[2], c[3]) => CellFaults(c)
        /\ (\A c \in DOMAIN cells.body : Reports(c[1], c[2], c[3])) =>
              (\A c \in DOMAIN cells.body : ~CellFaults(c))

\* C9, amended: the cell of a run that lacks the key faults (the formatting is
\* called on an absent value), and when every row's run reports every listed
\* key and the precision is between 0 and 100 no cell faults.
C9_CellFaultsIffKeyMissingOrPrecision ==
    (cells.rendered /\ ~cells.fault) =>
        /\ \A c \in DOMAIN cells.body :
              ~Reports(c[1], c[2], c[3]) => cells.body[c] = "TypeError"
        /\ (precision \in 0..100 /\ \A c \in DOMAIN cells.body : Reports(c[1], c[2], c[3])) =>
              (\A c \in DOMAIN cells.body : ~CellFaults(c))

C9_Witness ==
    /\ cells.rendered
    /\ precision \in 0..100
    /\ \E c, d \in DOMAIN cells.body :
          /\ c[2] = d[2] /\ c[3] = d[3]
          /\ ~Reports(c[1], c[2], c[3]) /\ cells.body[c] = "TypeError"
          /\ Reports(d[1], d[2], d[3]) /\ cells.body[d] = "text"

----------------------------------------------------------------------------
(* Properties of the SingleRun page *)

\* the indices of the stored runs whose identifier is the id prop
Matching == { i \in DOMAIN evaluationData : evaluationData[i].info.run_id = currentRoute.id }

\* C5: a page mounted with an id that matches no run of the store, loaded
\* before the mount or after it, has triggered the navigation to 'index'.
C5_RedirectsWhenUnresolved ==
    (view.mounted /\ Matching = {}) => redirected

\* C8: the nested route view is rendered only if some stored run has the id
\* prop as its identifier, and then it gets the resolved run (the first such
\* run) as its run prop; otherwise only the heading, empty, and the tabs are.
C8_RouterViewOnlyWhenResolved ==
    view.mounted =>
        /\ view.routerView.shown <=> Matching # {}
        /\ view.routerView.shown =>
              /\ view.routerView.run.info.run_id = currentRoute.id
              /\ view.routerView.run =
                    evaluationData[CHOOSE i \in Matching : \A j \in Matching : i <= j]
        /\ ~view.routerView.shown =>
              /\ view.heading = ""
              /\ view.tabs = [i \in DOMAIN tabs |-> tabs[i].label]

C8_Witness ==
    /\ view.mounted
    /\ view.routerView.shown
    /\ Cardinality(Matching) = 2
    /\ evaluationData[1] # evaluationData[2]
    /\ view.routerView.run = evaluationData[1]

----------------------------------------------------------------------------
(* Properties of the route table *)

named == { r \in records : r.name # NoName }

NamesDistinct == \A r1, r2 \in named : r1.name = r2.name => r1 = r2

RedirectsRegistered ==
    /\ \A r \in records : r.redirect # NoRedirect => r.redirect \in registeredNames
    /\ \E r \in records : r.name = "single-run" /\ r.redirect = "single-run-details"
    /\ \E r \in records :
          /\ r.parent = "compare-runs" /\ r.fullPath = recordNamed("compare-runs").fullPath
          /\ r.redirect = "compare-runs-metrics"
    /\ requested = "single-run" => currentRoute.name = "single-run-details"

\* C6 as stated: names are pairwise distinct, no two named routes resolve to
\* the same full path, and every redirect names a registered route.
C6_NamesAndPathsUnique ==
    /\ NamesDistinct
    /\ \A r1, r2 \in named : r1.fullPath = r2.fullPath => r1 = r2
    /\ RedirectsRegistered

\* C6, amended: names are pairwise distinct, every redirect names a registered
\* route, and no two named routes resolve to the same full path except
\* 'single-run' and its default child 'single-run-details', which both
\* resolve to /run/:id.
C6_NamesUniquePathsUniqueButDefaultChild ==
    /\ NamesDistinct
    /\ \A r1, r2 \in named :
          (r1.fullPath = r2.fullPath /\ r1 # r2) =>
              {r1.name, r2.name} = {"single-run", "single-run-details"}
    /\ recordNamed("single-run").fullPath = recordNamed("single-run-details").fullPath
    /\ RedirectsRegistered

C6_Witness ==
    /\ requested = "single-run"
    /\ currentRoute = [name |-> "single-run-details", id |-> "x"]
    /\ view.mounted

====
